---- MODULE Spec2Model ----
(***************************************************************************)
(* jax/_src/compiler.py: compile_or_get_cached and its helpers, as a state *)
(* machine.  Each thread of the process runs requests one after another;   *)
(* a request is cut into steps at its calls of the collaborators (key      *)
(* derivation, PersistentCache.get, the native compiler,                   *)
(* PersistentCache.put), because the function holds no lock and other      *)
(* threads run between those calls.                                        *)
(*                                                                         *)
(* Durations measured with time.monotonic() are floats in the code; here   *)
(* they are counted in half seconds (3 = 1.5 s), so that int() truncation  *)
(* and the "<" test against the threshold both have cases.  The durations  *)
(* stored in the cache are whole seconds, as put receives them.            *)
(***************************************************************************)
EXTENDS Integers, Sequences, FiniteSets, TLC

\* ---------------------------------------------------------------- bounds
\* IR dumps written over the life of the process (caps _ir_dump_counter).
MaxDumps == 2
\* Longest measured compile duration, in half seconds.
MaxCompileTime == 2
\* Largest num_replicas, num_partitions and device-assignment dimension.
MaxCount == 2
\* Most dimensions of a supplied device assignment.
MaxRank == 3
\* Largest XLA-AutoFDO profile version (flag or provider).
MaxVersion == 2
\* Longest module name passed to _make_string_safe_for_filename.
MaxNameLen == 2
\* Most host callbacks passed to backend_compile.
MaxCallbacks == 2

\* Two threads of one process: enough for every interleaving of two requests.
Threads == {"t1", "t2"}
\* The thread of a sequential caller.
MainThread == {"t1"}
\* IR modules the callers submit.
Modules == {"jit_f"}
Platforms == {"tpu", "gpu", "cpu"}
\* Values of jax_persistent_cache_min_compile_time_secs, in half seconds
\* (0 = unset, 2 = 1.0 s).
MinCompileTimes == {0, 2}
\* Recorded compile duration (seconds) of an entry another process stored;
\* such an entry may also lack its duration (get then returns (E, None)).
ForeignTimes == {10}

\* Python's None, for a platform name, a cache key, an executable, a duration.
None == "None"
NoKey == <<None, None>>
NoExe == [module |-> None, platform |-> None, by |-> None]
NoTime == -1

VARIABLES
  config,           \* process-wide configuration and environment
  cache,            \* PersistentCache: key -> entry, or None
  ir_dump_counter,  \* next value of _ir_dump_counter
  req,              \* per thread: the running request's inputs, locals, position
  fn                \* the running call of one of the module's other functions

vars == <<config, cache, ir_dump_counter, req, fn>>

\* ------------------------------------------------------ pure helpers
\* The persistent cache's key derivation: deterministic in (module, backend
\* platform); devices and options are held fixed.
get_cache_key(computation, platform) == <<computation, platform>>

Keys == {get_cache_key(m, p) : m \in Modules, p \in Platforms}

\* Mutant: round() for int().
int_secs_rounded(compile_time) == (compile_time + 1) \div 2

\* int(compile_time_secs) of a duration counted in half seconds.
int_secs(compile_time) == compile_time \div 2

\* Mutant: "cpu" supported whatever XLA_FLAGS holds.
supported_platforms_with_cpu == {"tpu", "gpu", "cpu"}

supported_platforms ==
  IF config.xla_cpu_use_xla_runtime THEN {"tpu", "gpu", "cpu"} ELSE {"tpu", "gpu"}

use_compilation_cache(platform) ==
  config.is_initialized /\ platform \in supported_platforms

\* Mutant: the read result is dropped.
cache_read_result_dropped(threw, found) ==
  [exe |-> NoExe, time |-> NoTime]

\* _cache_read: the pair it returns, given whether get threw and what get found.
cache_read_result(threw, found) ==
  IF threw THEN [exe |-> NoExe, time |-> NoTime] ELSE found

\* Mutant: read errors are downgraded whatever the flag.
cache_read_never_raises(threw) == FALSE

\* _cache_read: whether the exception of get leaves the function.
cache_read_raises(threw) ==
  threw /\ config.jax_raise_persistent_cache_errors

\* Mutant: the HIT branch is never taken.
is_hit_never(retrieved) == FALSE

\* Mutant: the HIT test inverted.
is_hit_inverted(retrieved) == retrieved.exe = NoExe

\* compile_or_get_cached: the HIT test on the retrieved pair.
is_hit(retrieved) == retrieved.exe # NoExe

\* Mutant: compile errors handled by the cache-error policy.
compile_error_downgraded(threw) ==
  threw /\ config.jax_raise_persistent_cache_errors

\* compile_or_get_cached: backend_compile is called outside any try, so its
\* exception leaves the function.
compile_error_propagates(threw) == threw

\* Mutant: the host_callbacks gate is missing.
host_callbacks_not_checked(host_callbacks) == FALSE

\* _cache_write: first gate.
skip_for_host_callbacks(host_callbacks) == host_callbacks

\* Mutant: "<=" for "<" in the threshold test.
skip_for_min_compile_time_le(compile_time) ==
  /\ config.jax_persistent_cache_min_compile_time_secs # 0
  /\ compile_time <= config.jax_persistent_cache_min_compile_time_secs

\* _cache_write: second gate.
skip_for_min_compile_time(compile_time) ==
  /\ config.jax_persistent_cache_min_compile_time_secs # 0
  /\ compile_time < config.jax_persistent_cache_min_compile_time_secs

\* Mutant: write errors are raised whatever the flag.
cache_write_always_raises(threw) == threw

\* _cache_write: whether the exception of put leaves the function.
cache_write_raises(threw) ==
  threw /\ config.jax_raise_persistent_cache_errors

\* Mutant: key-derivation errors handled by the cache-error policy.
key_error_downgraded(threw) ==
  threw /\ config.jax_raise_persistent_cache_errors

\* compile_or_get_cached: get_cache_key is called outside any try, so its
\* exception leaves the function.
key_error_propagates(threw) == threw

\* Mutant: the counter is read but not advanced.
counter_not_advanced(counter) == counter

\* next(_ir_dump_counter) returns counter and leaves the counter at this.
counter_after_next(counter) == counter + 1

\* ------------------------------------------------------------- state
NoEntry == [exe |-> NoExe, time |-> NoTime]

\* PersistentCache.get: the stored pair, (None, None) when nothing is stored.
get_executable_and_time(cache_key) == cache[cache_key]

\* PersistentCache.put: the store afterwards; the last write wins.
put_executable_and_time(cache_key, executable, compile_time_int) ==
  [cache EXCEPT ![cache_key] = [exe |-> executable, time |-> compile_time_int]]

\* The arguments of a call of PersistentCache.get or put (NoArgs: not called).
NoArgs == [key |-> NoKey, module_name |-> None, executable |-> NoExe,
           backend |-> None, time |-> NoTime]

Idle ==
  [pc |-> "idle", module |-> None, platform |-> None,
   host_callbacks |-> FALSE, dump_id |-> -1, cache_key |-> NoKey,
   retrieved |-> NoEntry, executable |-> NoExe, compile_time |-> 0,
   status |-> "none", value |-> NoExe, exc |-> None, trace |-> <<>>,
   get_args |-> NoArgs, put_args |-> NoArgs]

\* No call of get_compile_options, backend_compile or
\* _make_string_safe_for_filename is running.
NoCall == [op |-> "none"]

\* module_name: the module's sym_name attribute; modules are told apart by it.
module_name(computation) == computation

Ev(call, threw) == [call |-> call, threw |-> threw]

\* The executable built from module computation for the backend of platform,
\* by a compile in thread by of this process or by another process ("other").
Exe(computation, platform, by) ==
  [module |-> computation, platform |-> platform, by |-> by]

Init ==
  /\ config \in [is_initialized : BOOLEAN,
                 xla_cpu_use_xla_runtime : BOOLEAN,
                 jax_raise_persistent_cache_errors : BOOLEAN,
                 jax_persistent_cache_min_compile_time_secs : MinCompileTimes,
                 jax_dump_ir_to : BOOLEAN]
  /\ cache = [k \in Keys |-> NoEntry]
  /\ ir_dump_counter = 0
  /\ req = [t \in Threads |-> Idle]
  /\ fn = NoCall

Raise(r, e) == [r EXCEPT !.pc = "raised", !.status = "raised", !.exc = e]
Return(r, exe) == [r EXCEPT !.pc = "done", !.status = "returned", !.value = exe]

\* ------------------------------------------------------------ actions
\* A caller enters compile_or_get_cached.
Call(t) ==
  /\ req[t].pc = "idle"
  /\ config.jax_dump_ir_to => ir_dump_counter < MaxDumps
  /\ \E m \in Modules, p \in Platforms, hc \in BOOLEAN :
       req' = [req EXCEPT ![t] = [Idle EXCEPT !.pc = "start", !.module = m, !.platform = p,
                                   !.host_callbacks = hc]]
  /\ UNCHANGED <<fn, config, cache, ir_dump_counter>>

\* Lines 235-252 up to the branch: the optional IR dump, then the branch on
\* cached (use_compilation_cache).
StartStep(t, cached) ==
  /\ req[t].pc = "start"
  /\ \E write_fails \in BOOLEAN :
       LET dumping == config.jax_dump_ir_to
           r1 == IF dumping THEN [req[t] EXCEPT !.dump_id = ir_dump_counter]
                 ELSE req[t]
       IN /\ ir_dump_counter' = IF dumping THEN counter_after_next(ir_dump_counter)
                                ELSE ir_dump_counter
          /\ (write_fails => dumping)
          /\ req' = [req EXCEPT ![t] =
               IF write_fails THEN Raise(r1, "OSError")
               ELSE IF cached
                    THEN [r1 EXCEPT !.pc = "key"]
                    ELSE [r1 EXCEPT !.pc = "compile_uncached"]]
  /\ UNCHANGED <<fn, config, cache>>

\* Mutant: requests with host callbacks bypass the cache altogether.
Start_callbacks_uncached(t) ==
  StartStep(t, use_compilation_cache(req[t].platform) /\ ~req[t].host_callbacks)

Start(t) == StartStep(t, use_compilation_cache(req[t].platform))

\* Lines 254-257: compilation_cache.get_cache_key.
DeriveKey(t) ==
  /\ req[t].pc = "key"
  /\ \E threw \in BOOLEAN :
       LET r1 == [req[t] EXCEPT !.trace = Append(@, Ev("key", threw))]
       IN req' = [req EXCEPT ![t] =
            IF key_error_propagates(threw) THEN Raise(r1, "CacheKeyError")
            ELSE [r1 EXCEPT !.pc = "lookup",
                            !.cache_key = get_cache_key(req[t].module,
                                                        req[t].platform)]]
  /\ UNCHANGED <<fn, config, cache, ir_dump_counter>>

\* Lines 259-276: _cache_read, and the HIT branch.
CacheReadEffect(t) ==
  /\ \E threw \in BOOLEAN :
       LET r1 == [req[t] EXCEPT !.trace = Append(@, Ev("get", threw)),
                                !.get_args = [NoArgs EXCEPT
                                   !.key = req[t].cache_key,
                                   !.backend = req[t].platform]]
           got == cache_read_result(threw, get_executable_and_time(req[t].cache_key))
           r2 == [r1 EXCEPT !.retrieved = got]
       IN req' = [req EXCEPT ![t] =
            IF cache_read_raises(threw) THEN Raise(r1, "CacheReadError")
            ELSE IF is_hit(got)
                 THEN IF got.time = NoTime THEN Raise(r2, "AssertionError")
                      ELSE Return(r2, got.exe)
                 ELSE [r2 EXCEPT !.pc = "compile"]]
  /\ UNCHANGED <<fn, config, cache, ir_dump_counter>>

\* Mutant: a per-key lock held from the get to the put.
CacheRead_locked(t) ==
  /\ req[t].pc = "lookup"
  /\ \A u \in Threads \ {t} :
       ~(req[u].pc \in {"compile", "write"} /\ req[u].cache_key = req[t].cache_key)
  /\ CacheReadEffect(t)

\* The get is reached as soon as the key is derived: no lock is taken.
CacheRead(t) ==
  /\ req[t].pc = "lookup"
  /\ CacheReadEffect(t)

\* Lines 251-252 and 278-281: backend_compile, timed.
Compile(t) ==
  /\ req[t].pc \in {"compile_uncached", "compile"}
  /\ \E threw \in BOOLEAN, d \in 0..MaxCompileTime :
       LET r1 == [req[t] EXCEPT !.trace = Append(@, Ev("compile", threw))]
           exe == IF threw THEN NoExe
                  ELSE Exe(req[t].module, req[t].platform, t)
       IN req' = [req EXCEPT ![t] =
            IF compile_error_propagates(threw) THEN Raise(r1, "CompileError")
            ELSE IF req[t].pc = "compile_uncached"
                 THEN Return(r1, exe)
                 ELSE [r1 EXCEPT !.pc = "write", !.executable = exe,
                                 !.compile_time = d]]
  /\ UNCHANGED <<fn, config, cache, ir_dump_counter>>

\* Lines 282-284: _cache_write, then return the fresh executable.
CacheWrite(t) ==
  /\ req[t].pc = "write"
  /\ \E threw \in BOOLEAN :
       LET r == req[t]
           skip == skip_for_host_callbacks(r.host_callbacks)
                   \/ skip_for_min_compile_time(r.compile_time)
           args == [key |-> r.cache_key, module_name |-> module_name(r.module),
                    executable |-> r.executable, backend |-> r.platform,
                    time |-> int_secs(r.compile_time)]
           r1 == [r EXCEPT !.trace = Append(@, Ev("put", threw)),
                           !.put_args = args]
       IN IF skip
          THEN /\ ~threw
               /\ req' = [req EXCEPT ![t] = Return(r, r.executable)]
               /\ UNCHANGED cache
          ELSE /\ cache' = IF threw THEN cache
                           ELSE put_executable_and_time(
                                  args.key, args.executable, args.time)
               /\ req' = [req EXCEPT ![t] =
                    IF cache_write_raises(threw) THEN Raise(r1, "CacheWriteError")
                    ELSE Return(r1, r.executable)]
  /\ UNCHANGED <<fn, config, ir_dump_counter>>

\* The caller takes the result (or the exception); the thread is free again.
Finish(t) ==
  /\ req[t].pc \in {"done", "raised"}
  /\ req' = [req EXCEPT ![t] = Idle]
  /\ UNCHANGED <<fn, config, cache, ir_dump_counter>>

\* Another process sharing the persistent cache stores an entry.
Populate(k) ==
  /\ cache[k] = NoEntry
  /\ \E tm \in ForeignTimes \cup {NoTime} :
       cache' = [cache EXCEPT ![k] = [exe |-> Exe(k[1], k[2], "other"),
                                      time |-> tm]]
  /\ UNCHANGED <<fn, config, ir_dump_counter, req>>

\* The persistent cache's retention policy removes an entry.
Evict(k) ==
  /\ cache[k] # NoEntry
  /\ cache' = [cache EXCEPT ![k] = NoEntry]
  /\ UNCHANGED <<fn, config, ir_dump_counter, req>>

\* One caller at a time; other processes share the persistent cache.
Next ==
  \/ \E t \in MainThread : Call(t)
  \/ \E t \in MainThread : Start(t)
  \/ \E t \in MainThread : DeriveKey(t)
  \/ \E t \in MainThread : CacheRead(t)
  \/ \E t \in MainThread : Compile(t)
  \/ \E t \in MainThread : CacheWrite(t)
  \/ \E t \in MainThread : Finish(t)
  \/ \E k \in Keys : Populate(k)
  \/ \E k \in Keys : Evict(k)

Spec == Init /\ [][Next]_vars

\* Two threads call concurrently, with the cache initialized and this
\* process the only writer of the cache.
InitConc ==
  /\ Init
  /\ config.is_initialized
  /\ ~config.xla_cpu_use_xla_runtime
  /\ ~config.jax_dump_ir_to
  /\ config.jax_persistent_cache_min_compile_time_secs = 0

NextConc ==
  \/ \E t \in Threads : Call(t)
  \/ \E t \in Threads : Start(t)
  \/ \E t \in Threads : DeriveKey(t)
  \/ \E t \in Threads : CacheRead(t)
  \/ \E t \in Threads : Compile(t)
  \/ \E t \in Threads : CacheWrite(t)
  \/ \E t \in Threads : Finish(t)
  \/ \E k \in Keys : Evict(k)

SpecConc == InitConc /\ [][NextConc]_vars

\* Two threads call concurrently with IR dumping configured.
InitDump ==
  /\ Init
  /\ config.jax_dump_ir_to
  /\ ~config.xla_cpu_use_xla_runtime
  /\ ~config.jax_raise_persistent_cache_errors
  /\ config.jax_persistent_cache_min_compile_time_secs = 0

SpecDump == InitDump /\ [][NextConc]_vars

\* ------------------------------------------- the module's other functions
\* All sequences over S of length at most n.
SeqsUpTo(S, n) == UNION {[1..k -> S] : k \in 0..n}

\* Shapes of the arrays np.array(device_assignment) can be (<<>>: a scalar).
Shapes == SeqsUpTo(1..MaxCount, MaxRank)

\* Lines 118-120: a 1-D assignment becomes a column when num_partitions is 1.
reshaped(shape, num_partitions) ==
  IF Len(shape) = 1 /\ num_partitions = 1 THEN <<shape[1], 1>> ELSE shape

\* Lines 122-136: what the checks of a supplied device assignment raise
\* (None: nothing).  shape[0] and shape[1] index the shape tuple, which raises
\* IndexError when the array has too few dimensions.  create_accepts is
\* whether xc.DeviceAssignment.create takes an array that is not 2-D.
device_assignment_error(num_replicas, num_partitions, shape, create_accepts) ==
  LET sh == reshaped(shape, num_partitions) IN
  IF Len(sh) < 1 THEN "IndexError"
  ELSE IF num_replicas # sh[1] THEN "ValueError"
  ELSE IF Len(sh) < 2 THEN "IndexError"
  ELSE IF num_partitions # sh[2] THEN "ValueError"
  ELSE IF Len(sh) # 2 /\ ~create_accepts THEN "XlaRuntimeError"
  ELSE None

\* Mutant: ">= 0" for "> 0" in the test of the flag.
profile_version_flag_ge(flag, latest) ==
  IF flag >= 0 THEN flag
  ELSE IF latest # 0 THEN latest
  ELSE -1

\* Lines 157-174: the profile version from the flag jax_xla_profile_version
\* and the value get_latest_profile_version returns.
profile_version(flag, latest) ==
  IF flag > 0 THEN flag
  ELSE IF latest # 0 THEN latest
  ELSE -1

\* Lines 158, 164: get_latest_profile_version is called in the else branch.
provider_called(flag) == ~(flag > 0)

\* get_compile_options, on the arguments and configuration the claims read;
\* the other arguments are copied into the options unread.
get_compile_options(num_replicas, num_partitions, device_assignment, create_accepts, flag, latest) ==
  LET err == IF device_assignment.given
             THEN device_assignment_error(num_replicas, num_partitions,
                                          device_assignment.shape, create_accepts)
             ELSE None
  IN IF err # None
     THEN [status |-> "raised", exc |-> err, has_assignment |-> FALSE,
           assignment_shape |-> <<>>, profile_version |-> 0,
           provider_called |-> FALSE]
     ELSE [status |-> "returned", exc |-> None,
           has_assignment |-> device_assignment.given,
           assignment_shape |-> IF device_assignment.given
                                THEN reshaped(device_assignment.shape, num_partitions)
                                ELSE <<>>,
           profile_version |-> profile_version(flag, latest),
           provider_called |-> provider_called(flag)]

\* Characters of a module name, one or more of each kind the pattern treats
\* alike: ASCII letters and digits, the underscore, the listed punctuation,
\* other ASCII, and letters and digits outside ASCII (U+00E9, U+0663).
AsciiAlnum == {"a", "Z", "7"}
ListedPunctuation == {".", ")", "(", " ", "-"}
OtherAscii == {"/", ":"}
NonAsciiAlnum == {"e_acute", "arabic_3"}
Chars == AsciiAlnum \cup {"_"} \cup ListedPunctuation \cup OtherAscii
           \cup NonAsciiAlnum

\* Mutant: the pattern compiled with re.ASCII.
is_word_ascii(c) == c \in AsciiAlnum \cup {"_"}

\* \w of a str pattern: Unicode word characters.
is_word(c) == c \in AsciiAlnum \cup {"_"} \cup NonAsciiAlnum

\* The complement of the class [^\w.)( -]: what re.sub leaves in place.
is_kept(c) == is_word(c) \/ c \in ListedPunctuation

\* Lines 218-219.
make_string_safe_for_filename(name) == SelectSeq(name, is_kept)

\* Line 200: getattr(backend, "needs_str_ir", True).
needs_str_ir(attr) == IF attr = "absent" THEN TRUE ELSE attr = "True"

\* Mutant: host_callbacks passed to every native call.
pass_host_callbacks_always(host_callbacks) == TRUE

\* Line 207: if host_callbacks.
pass_host_callbacks(host_callbacks) == Len(host_callbacks) > 0

\* backend_compile: the native calls it makes and how it ends.
backend_compile(attr, host_callbacks, native_throws) ==
  LET built_c == IF needs_str_ir(attr) THEN "bytecode" ELSE "module"
      call == IF pass_host_callbacks(host_callbacks)
              THEN [built_c |-> built_c,
                    kwargs |-> {"compile_options", "host_callbacks"},
                    host_callbacks |-> host_callbacks]
              ELSE [built_c |-> built_c, kwargs |-> {"compile_options"},
                    host_callbacks |-> <<>>]
  IN [native_calls |-> <<call>>,
      status |-> IF native_throws THEN "raised" ELSE "returned",
      exc |-> IF native_throws THEN "CompileError" ELSE None]

CallGetCompileOptions ==
  /\ fn.op = "none"
  /\ \E r \in 1..MaxCount, p \in 1..MaxCount,
        da \in [given : BOOLEAN, shape : Shapes],
        create_accepts \in BOOLEAN,
        flag \in -1..MaxVersion, latest \in -1..MaxVersion :
       /\ ~da.given => da.shape = <<>> /\ create_accepts
       /\ (da.given /\ Len(reshaped(da.shape, p)) <= 2) => create_accepts
       /\ fn' = [op |-> "get_compile_options",
                 in |-> [num_replicas |-> r, num_partitions |-> p,
                         device_assignment |-> da, flag |-> flag,
                         latest |-> latest],
                 out |-> get_compile_options(r, p, da, create_accepts,
                                             flag, latest)]
  /\ UNCHANGED <<config, cache, ir_dump_counter, req>>

CallMakeStringSafe ==
  /\ fn.op = "none"
  /\ \E name \in SeqsUpTo(Chars, MaxNameLen) :
       fn' = [op |-> "make_string_safe_for_filename", in |-> name,
              out |-> make_string_safe_for_filename(name)]
  /\ UNCHANGED <<config, cache, ir_dump_counter, req>>

CallBackendCompile ==
  /\ fn.op = "none"
  /\ \E attr \in {"absent", "True", "False"}, n \in 0..MaxCallbacks,
        native_throws \in BOOLEAN :
       LET host_callbacks == [i \in 1..n |-> i] IN
       fn' = [op |-> "backend_compile",
              in |-> [needs_str_ir |-> attr, host_callbacks |-> host_callbacks,
                      native_throws |-> native_throws],
              out |-> backend_compile(attr, host_callbacks, native_throws)]
  /\ UNCHANGED <<config, cache, ir_dump_counter, req>>

\* The call's result is taken.
ReturnFn ==
  /\ fn.op # "none"
  /\ fn' = NoCall
  /\ UNCHANGED <<config, cache, ir_dump_counter, req>>

\* The functions called on their own, whatever the cache configuration.
InitFn ==
  /\ Init
  /\ ~config.is_initialized
  /\ ~config.xla_cpu_use_xla_runtime
  /\ ~config.jax_raise_persistent_cache_errors
  /\ config.jax_persistent_cache_min_compile_time_secs = 0
  /\ ~config.jax_dump_ir_to

NextFn ==
  \/ CallGetCompileOptions
  \/ CallMakeStringSafe
  \/ CallBackendCompile
  \/ ReturnFn

SpecFn == InitFn /\ [][NextFn]_vars

\* ------------------------------------------------------- properties
\* Request r called collaborator c (whatever the call's outcome).
Called(r, c) == \E i \in DOMAIN r.trace : r.trace[i].call = c
\* Request r called collaborator c and the call threw.
CallThrew(r, c) ==
  \E i \in DOMAIN r.trace : r.trace[i].call = c /\ r.trace[i].threw
\* Request r called collaborator c and the call returned.
CallReturned(r, c) ==
  \E i \in DOMAIN r.trace : r.trace[i].call = c /\ ~r.trace[i].threw
\* How many times request r called collaborator c.
Count(r, c) == Cardinality({i \in DOMAIN r.trace : r.trace[i].call = c})
Finished(r) == r.pc \in {"done", "raised"}

\* C1: a request whose get returned a non-null executable E with a non-null
\* duration returns E, and has called neither the compiler nor put.
C1_HitReturnsCached ==
  \A t \in Threads :
    LET r == req[t] IN
    (r.retrieved.exe # NoExe /\ r.retrieved.time # NoTime) =>
       /\ r.pc = "done"
       /\ r.status = "returned"
       /\ r.value = r.retrieved.exe
       /\ ~Called(r, "compile")
       /\ ~Called(r, "put")

\* The spec's hit scenario: an entry stored beforehand with duration 10,
\* served to a request on platform "tpu".
C1_Witness ==
  \E t \in Threads :
    /\ req[t].pc = "done"
    /\ req[t].platform = "tpu"
    /\ req[t].retrieved = [exe |-> Exe(req[t].module, "tpu", "other"), time |-> 10]
    /\ req[t].value = req[t].retrieved.exe
    /\ config.is_initialized

\* The eligibility rule as the spec states it.
Eligible(r) ==
  /\ config.is_initialized
  /\ \/ r.platform \in {"tpu", "gpu"}
     \/ r.platform = "cpu" /\ config.xla_cpu_use_xla_runtime

\* C2: a request past START is on the cache path iff it is eligible; an
\* ineligible request calls the compiler exactly once and never calls
\* get_cache_key, get or put.
C2_Eligibility ==
  \A t \in Threads :
    LET r == req[t] IN
    (r.pc \notin {"idle", "start"} /\ r.exc # "OSError") =>
       /\ Eligible(r) <=> (r.pc = "key" \/ Called(r, "key"))
       /\ ~Eligible(r) =>
            /\ ~Called(r, "key") /\ ~Called(r, "get") /\ ~Called(r, "put")
            /\ Count(r, "compile") = (IF Finished(r) THEN 1 ELSE 0)

\* Platform "cpu" without the CPU-runtime flag, cache initialized: compiled
\* without any cache call.
C2_Witness ==
  \E t \in Threads :
    /\ req[t].pc = "done"
    /\ req[t].platform = "cpu"
    /\ config.is_initialized /\ ~config.xla_cpu_use_xla_runtime
    /\ req[t].trace = <<Ev("compile", FALSE)>>

\* C3: when get threw: with raise-on-cache-error false nothing propagates and
\* the request is on the MISS path (at the compiler or past it); with the flag
\* true the read error has propagated and the compiler was not called.
C3_ReadErrorPolicy ==
  \A t \in Threads :
    LET r == req[t] IN
    CallThrew(r, "get") =>
       IF config.jax_raise_persistent_cache_errors
       THEN r.pc = "raised" /\ r.exc = "CacheReadError" /\ ~Called(r, "compile")
       ELSE /\ r.exc # "CacheReadError"
            /\ r.retrieved = NoEntry
            /\ r.pc = "compile" \/ Called(r, "compile")

\* A get that threw while an entry was stored, downgraded: the request
\* compiled and returned its own executable.
C3_Witness ==
  \E t \in Threads :
    /\ CallThrew(req[t], "get")
    /\ ~config.jax_raise_persistent_cache_errors
    /\ req[t].pc = "done"
    /\ CallReturned(req[t], "compile")
    /\ req[t].value = Exe(req[t].module, req[t].platform, t)

\* C4: when put threw: with raise-on-cache-error false the request returns
\* the executable it compiled; with the flag true the write error propagates
\* and nothing is returned.
C4_WriteErrorPolicy ==
  \A t \in Threads :
    LET r == req[t] IN
    CallThrew(r, "put") =>
       IF config.jax_raise_persistent_cache_errors
       THEN r.pc = "raised" /\ r.exc = "CacheWriteError" /\ r.status # "returned"
       ELSE /\ r.pc = "done" /\ r.status = "returned" /\ r.exc = None
            /\ r.value = Exe(r.module, r.platform, t)

C4_Witness ==
  \E t \in Threads :
    /\ CallThrew(req[t], "put")
    /\ ~config.jax_raise_persistent_cache_errors
    /\ req[t].pc = "done"
    /\ req[t].value = req[t].executable
    /\ req[t].executable # NoExe

\* C5: a request with host callbacks never calls put, and no step of such a
\* request changes the cache; when it misses and the compiler succeeds it
\* returns the executable it compiled.
C5_HostCallbacksNeverWritten ==
  /\ [](\A t \in Threads :
         LET r == req[t] IN
         r.host_callbacks =>
            /\ ~Called(r, "put")
            /\ (r.pc = "done" /\ Called(r, "get") /\ ~is_hit(r.retrieved)) =>
                 /\ Count(r, "compile") = 1
                 /\ r.value = Exe(r.module, r.platform, t))
  /\ [][\A t \in Threads :
          (req[t].host_callbacks /\ req'[t] # req[t]) => cache' = cache]_vars

C5_Witness ==
  \E t \in Threads :
    /\ req[t].host_callbacks
    /\ req[t].pc = "done"
    /\ req[t].trace = <<Ev("key", FALSE), Ev("get", FALSE), Ev("compile", FALSE)>>
    /\ req[t].value = Exe(req[t].module, req[t].platform, t)
    /\ cache[req[t].cache_key] = NoEntry

\* C6: a request without host callbacks that missed and compiled calls put
\* iff no threshold is configured or the measured duration is not below it.
C6_MinCompileTimeGate ==
  \A t \in Threads :
    LET r == req[t]
        min == config.jax_persistent_cache_min_compile_time_secs
    IN (Finished(r) /\ ~r.host_callbacks /\ Called(r, "get")
          /\ CallReturned(r, "compile")) =>
         (Called(r, "put") <=> (min = 0 \/ r.compile_time >= min))

\* A threshold is configured and the compile was faster: no put.
C6_Witness ==
  \E t \in Threads :
    /\ req[t].pc = "done"
    /\ ~req[t].host_callbacks
    /\ config.jax_persistent_cache_min_compile_time_secs = 2
    /\ req[t].compile_time = 1
    /\ CallReturned(req[t], "compile")
    /\ ~Called(req[t], "put")

\* C7: when the native compiler threw, its error has propagated whatever the
\* raise-on-cache-error flag, the compiler was called once, and put was not
\* called.
C7_CompileErrorPropagates ==
  \A t \in Threads :
    LET r == req[t] IN
    CallThrew(r, "compile") =>
       /\ r.pc = "raised" /\ r.exc = "CompileError"
       /\ Count(r, "compile") = 1
       /\ ~Called(r, "put")

\* An eligible request, errors downgraded, whose compile failed after a miss.
C7_Witness ==
  \E t \in Threads :
    /\ CallThrew(req[t], "compile")
    /\ ~config.jax_raise_persistent_cache_errors
    /\ Called(req[t], "get")
    /\ req[t].pc = "raised"

\* C8: a get that does not throw and finds an entry written by a put of this
\* process is a HIT: the request returns that entry's executable and does not
\* call the compiler.
C8_LaterRequestHits ==
  [][\A t \in Threads :
       LET e == cache[req[t].cache_key] IN
       (req[t].pc = "lookup" /\ req'[t].pc # "lookup"
          /\ e.exe.by \in Threads /\ ~CallThrew(req'[t], "get")) =>
         /\ req'[t].pc = "done" /\ req'[t].status = "returned"
         /\ req'[t].value = e.exe
         /\ ~Called(req'[t], "compile")]_vars

\* A request served the executable another thread's request compiled and put.
C8_Witness ==
  \E t \in Threads :
    /\ req[t].pc = "done"
    /\ req[t].value.by \in Threads \ {t}
    /\ req[t].value = cache[req[t].cache_key].exe
    /\ req[t].trace = <<Ev("key", FALSE), Ev("get", FALSE)>>

\* C9 as stated: while an entry stored by a put is in the cache, no put for
\* its key succeeds.
C9_NeverOverwritten ==
  [][\A t \in Threads :
       (req[t].pc = "write" /\ CallReturned(req'[t], "put")) =>
         cache[req[t].cache_key] = NoEntry]_vars

\* C9 amended: the cache is written only by the put of a request whose own
\* get returned no executable and whose compile succeeded, and that put
\* stores the request's executable under its key (replacing what is there).
C9_PutOnlyAfterOwnMiss ==
  [][\A t \in Threads :
       (req'[t] # req[t] /\ cache' # cache) =>
         /\ req[t].pc = "write"
         /\ req[t].retrieved = NoEntry
         /\ CallReturned(req[t], "compile")
         /\ ~req[t].host_callbacks
         /\ cache' = [cache EXCEPT ![req[t].cache_key] =
                        [exe |-> Exe(req[t].module, req[t].platform, t),
                         time |-> int_secs(req[t].compile_time)]]]_vars

\* An entry replaced: one request's put succeeded, and another request, whose
\* get threw and was downgraded, has put its own executable over it.
C9_Witness ==
  \E t \in Threads, u \in Threads :
    /\ t # u
    /\ req[t].pc = "done" /\ CallReturned(req[t], "put")
    /\ req[u].pc = "done" /\ CallReturned(req[u], "put")
    /\ CallThrew(req[u], "get")
    /\ req[t].cache_key = req[u].cache_key
    /\ cache[req[u].cache_key].exe = req[u].executable

\* C10: no request waits for another: a request at the get, at the compiler or
\* at the put can take that step wherever the other thread's request stands.
C10_NoLock ==
  \A t \in Threads :
    /\ req[t].pc = "lookup" => ENABLED CacheRead(t)
    /\ req[t].pc = "compile" => ENABLED Compile(t)
    /\ req[t].pc = "write" => ENABLED CacheWrite(t)

\* The race: both gets returned a miss, both requests compiled, one has put
\* its executable and the other stands at its put for the same key.
C10_Witness ==
  \E t \in Threads, u \in Threads :
    /\ t # u
    /\ req[t].cache_key = req[u].cache_key
    /\ CallReturned(req[t], "get") /\ req[t].retrieved = NoEntry
    /\ CallReturned(req[u], "get") /\ req[u].retrieved = NoEntry
    /\ CallReturned(req[t], "compile") /\ CallReturned(req[u], "compile")
    /\ req[t].pc = "done" /\ CallReturned(req[t], "put")
    /\ cache[req[t].cache_key].exe = req[t].executable
    /\ req[u].pc = "write"
    /\ ~req[u].host_callbacks

\* C11 as stated: a supplied device assignment whose shape is not
\* (num_replicas, num_partitions), and is not a 1-D assignment of length
\* num_replicas with num_partitions = 1, makes get_compile_options raise
\* ValueError.
C11_ShapeMismatchIsValueError ==
  fn.op = "get_compile_options" =>
    LET in == fn.in
        shape == in.device_assignment.shape
        accepted ==
          \/ shape = <<in.num_replicas, in.num_partitions>>
          \/ /\ Len(shape) = 1 /\ in.num_partitions = 1
             /\ shape[1] = in.num_replicas
    IN (in.device_assignment.given /\ ~accepted) =>
         fn.out.status = "raised" /\ fn.out.exc = "ValueError"

\* C12: the options returned carry the flag's version if it is > 0, else the
\* provider's value if that is nonzero, else -1; the version is never 0; the
\* provider is called iff the flag is not > 0.
C12_ProfileVersion ==
  (fn.op = "get_compile_options" /\ fn.out.status = "returned") =>
    LET flag == fn.in.flag
        latest == fn.in.latest
        v == fn.out.profile_version
    IN /\ flag > 0 => v = flag /\ ~fn.out.provider_called
       /\ (flag <= 0 /\ latest # 0) => v = latest /\ fn.out.provider_called
       /\ (flag <= 0 /\ latest = 0) => v = -1 /\ fn.out.provider_called
       /\ v # 0

\* The flag unset and the provider returning 0: the sentinel -1.
C12_Witness ==
  /\ fn.op = "get_compile_options"
  /\ fn.in.flag = 0 /\ fn.in.latest = 0
  /\ fn.out.status = "returned"
  /\ fn.out.profile_version = -1

\* The characters the spec lists: [A-Za-z0-9_.() -].
ListedAscii == {"a", "Z", "7", "_", ".", "(", ")", " ", "-"}
InListedAscii(c) == c \in ListedAscii
\* The characters the pattern leaves: those, and the letters and digits
\* outside ASCII.
InListedOrWord(c) == c \in ListedAscii \cup {"e_acute", "arabic_3"}

\* C17 as stated: the sanitized name is the name's characters of
\* [A-Za-z0-9_.() -], in order, and nothing else.
C17_OnlyListedAscii ==
  fn.op = "make_string_safe_for_filename" =>
    fn.out = SelectSeq(fn.in, InListedAscii)

\* C17 amended: the sanitized name is, in order, the name's characters that
\* are word characters (ASCII or not) or one of . ( ) space -.
C17_KeepsWordAndListed ==
  fn.op = "make_string_safe_for_filename" =>
    /\ fn.out = SelectSeq(fn.in, InListedOrWord)
    /\ \A i \in DOMAIN fn.out : InListedOrWord(fn.out[i])

\* A non-ASCII letter survives while "/" is removed.
C17_Witness ==
  /\ fn.op = "make_string_safe_for_filename"
  /\ fn.in = <<"e_acute", "/">>
  /\ fn.out = <<"e_acute">>

\* C18: backend_compile makes one native call, also when that call throws;
\* the call has the host_callbacks argument iff host_callbacks is non-empty,
\* and then it is the caller's; the module goes as bytecode unless the
\* backend's needs_str_ir is false; a native failure is what the caller gets.
C18_OneNativeCall ==
  fn.op = "backend_compile" =>
    LET in == fn.in
        calls == fn.out.native_calls
    IN /\ Len(calls) = 1
       /\ "host_callbacks" \in calls[1].kwargs <=> in.host_callbacks # <<>>
       /\ calls[1].host_callbacks = in.host_callbacks
       /\ calls[1].built_c = "module" <=> in.needs_str_ir = "False"
       /\ calls[1].built_c = "bytecode" <=> in.needs_str_ir \in {"absent", "True"}
       /\ in.native_throws <=>
            (fn.out.status = "raised" /\ fn.out.exc = "CompileError")
       /\ ~in.native_throws <=> fn.out.status = "returned"

\* No callbacks and no needs_str_ir attribute: the short call, with bytecode,
\* and its failure handed on.
C18_Witness ==
  /\ fn.op = "backend_compile"
  /\ fn.in.host_callbacks = <<>> /\ fn.in.needs_str_ir = "absent"
  /\ fn.in.native_throws
  /\ fn.out.native_calls = <<[built_c |-> "bytecode",
                              kwargs |-> {"compile_options"},
                              host_callbacks |-> <<>>]>>
  /\ fn.out.status = "raised"

\* Position of a collaborator call in the request's state sequence.
Rank(c) ==
  CASE c = "key" -> 1 [] c = "get" -> 2 [] c = "compile" -> 3 [] c = "put" -> 4

\* The request was served from the cache.
WasHit(r) == CallReturned(r, "get") /\ r.retrieved.exe # NoExe

\* C13: a request's calls come in the order key, get, compile, put, each at
\* most once; an eligible request that reached the compiler called get first;
\* put follows a compile that returned; a request that returned called the
\* compiler once and it succeeded, unless it was a HIT, and then not at all.
C13_EventOrder ==
  \A t \in Threads :
    LET r == req[t] IN
    /\ \A i \in DOMAIN r.trace, j \in DOMAIN r.trace :
         i < j => Rank(r.trace[i].call) < Rank(r.trace[j].call)
    /\ (Eligible(r) /\ Called(r, "compile")) =>
         Called(r, "key") /\ Called(r, "get")
    /\ Called(r, "put") => CallReturned(r, "compile")
    /\ r.pc = "done" =>
         IF WasHit(r) THEN ~Called(r, "compile")
         ELSE Count(r, "compile") = 1 /\ CallReturned(r, "compile")

\* A request that went through every state: key, get (miss), compile, put.
C13_Witness ==
  \E t \in Threads :
    /\ req[t].pc = "done"
    /\ req[t].trace = <<Ev("key", FALSE), Ev("get", FALSE),
                        Ev("compile", FALSE), Ev("put", FALSE)>>

\* C14: put receives the key the request derived and gave to get, the
\* module's name, the executable this request's compile returned, the
\* request's backend, and the duration cut down to whole seconds.
C14_PutArguments ==
  \A t \in Threads :
    LET r == req[t] a == r.put_args IN
    Called(r, "put") =>
      /\ Count(r, "key") = 1
      /\ a.key = r.get_args.key /\ a.key = r.cache_key /\ a.key # NoKey
      /\ a.module_name = r.module
      /\ a.executable = Exe(r.module, r.platform, t)
      /\ a.backend = r.platform /\ a.backend = r.get_args.backend
      /\ 2 * a.time <= r.compile_time /\ r.compile_time < 2 * a.time + 2

\* A compile of 0.5 s is stored with duration 0.
C14_Witness ==
  \E t \in Threads :
    /\ CallReturned(req[t], "put")
    /\ req[t].compile_time = 1
    /\ req[t].put_args.time = 0
    /\ cache[req[t].cache_key] = [exe |-> req[t].executable, time |-> 0]

\* C15 as stated: a request ends as it would with dumping disabled, that is
\* with an executable or with an error of key derivation, the cache or the
\* compiler, whatever becomes of the dump file's write.
C15_DumpNeverAffectsOutcome ==
  \A t \in Threads :
    Finished(req[t]) =>
      req[t].exc \in {None, "CacheKeyError", "CacheReadError", "AssertionError",
                      "CompileError", "CacheWriteError"}

\* The name of the file a request's dump is written to.
dump_file_name(id, name) == <<"jax_ir", id, "_", name, ".mlir">>

\* C16: with dumping configured every request takes, at START, the counter's
\* value and leaves the counter one higher; the counter starts at 0; so the
\* numbers and file names of the requests in flight, concurrent ones
\* included, differ pairwise and all lie below the counter.
C16_DumpCounter ==
  /\ ir_dump_counter = 0
  /\ [](\A t \in Threads :
          /\ req[t].pc \notin {"idle", "start"} =>
               req[t].dump_id \in 0..(ir_dump_counter - 1)
          /\ \A u \in Threads \ {t} :
               (req[t].dump_id # -1 /\ req[u].dump_id # -1) =>
                 /\ req[t].dump_id # req[u].dump_id
                 /\ dump_file_name(req[t].dump_id, req[t].module)
                      # dump_file_name(req[u].dump_id, req[u].module))
  /\ [][\A t \in Threads :
          (req[t].pc = "start" /\ req'[t].pc # "start") =>
            /\ req'[t].dump_id = ir_dump_counter
            /\ ir_dump_counter' = ir_dump_counter + 1]_vars

\* Two concurrent requests for the same module hold the dumps 0 and 1.
C16_Witness ==
  /\ req["t1"].dump_id = 1 /\ req["t2"].dump_id = 0
  /\ req["t1"].module = req["t2"].module
  /\ req["t1"].pc = "done" /\ req["t2"].pc = "done"
  /\ ir_dump_counter = 2

\* C19: an eligible request with host callbacks takes the cache path like any
\* other: it derives the key of its module and platform, calls get, and on a
\* hit returns the stored executable without calling the compiler.
C19_CallbacksStillRead ==
  \A t \in Threads :
    LET r == req[t] IN
    (r.host_callbacks /\ Eligible(r) /\ r.pc \notin {"idle", "start"}
       /\ r.exc # "OSError") =>
      /\ r.pc = "key" \/ Called(r, "key")
      /\ CallReturned(r, "key") => r.cache_key = get_cache_key(r.module, r.platform)
      /\ r.pc \in {"compile", "write", "done"} => Called(r, "get")
      /\ (WasHit(r) /\ r.retrieved.time # NoTime) =>
           /\ r.pc = "done" /\ r.value = r.retrieved.exe
           /\ ~Called(r, "compile")

C19_Witness ==
  \E t \in Threads :
    /\ req[t].host_callbacks
    /\ req[t].pc = "done"
    /\ WasHit(req[t])
    /\ req[t].value = req[t].retrieved.exe
    /\ req[t].trace = <<Ev("key", FALSE), Ev("get", FALSE)>>

\* C20: when get_cache_key threw, its error has propagated whatever the
\* raise-on-cache-error flag, and neither get, the compiler nor put was called.
C20_KeyErrorPropagates ==
  \A t \in Threads :
    LET r == req[t] IN
    CallThrew(r, "key") =>
      /\ r.pc = "raised" /\ r.exc = "CacheKeyError"
      /\ ~Called(r, "get") /\ ~Called(r, "compile") /\ ~Called(r, "put")

\* Key derivation failed while cache errors are downgraded.
C20_Witness ==
  \E t \in Threads :
    /\ CallThrew(req[t], "key")
    /\ ~config.jax_raise_persistent_cache_errors
    /\ req[t].pc = "raised"

====
